---- MODULE Spec2Model ----
(***************************************************************************)
(* The weekly scheduling engine of scheduler/backend/app/core:             *)
(* SchoolScheduler.create_schedule (scheduler.py) and the ConstraintEngine *)
(* (constraints.py) that builds the CP-SAT model it solves.                *)
(*                                                                         *)
(* A time string "HH:MM" is the pair <<HH, MM>>; Python compares such      *)
(* strings character by character, which on two-digit fields is the        *)
(* lexicographic order of the pairs.  A timeslot string "monday_08:00" is  *)
(* the pair <<"monday", <<8, 0>>>> (what split('_') takes apart again).    *)
(* A datetime is a day number counted from 2024-01-01, a Monday.  An       *)
(* optional value is <<>> (None) or <<v>>.                                 *)
(***************************************************************************)
EXTENDS Integers, Sequences, FiniteSets, TLC

VARIABLES
    pc,                \* position of the caller / of create_schedule
    calls,             \* create_schedule calls made on the current instance
    universe,          \* which input menu the caller draws from (fixed)
    students,          \* argument: list of Student
    staff,             \* argument: list of Staff
    week_number,       \* argument
    year,              \* argument
    absences,          \* argument: list of Absence
    model,             \* self.model: the CpModel (variables, constraints, objective)
    decision_vars,     \* self.decision_vars: insertion-ordered dict key -> BoolVar
    status,            \* what self.solver.Solve returned
    solution,          \* the solver's response: indices of the variables valued 1
    result,            \* what create_schedule returned (a Schedule) or <<>>
    error,             \* the exception create_schedule raised, or "none"
    message,           \* the text the exception carries, or ""
    args,              \* the arguments of a helper called on its own, or <<>>
    retval,            \* what that call returned, or <<>>
    db                 \* the schedules table: its rows and the number of ids issued

vars == <<pc, calls, universe, students, staff, week_number, year, absences,
          model, decision_vars, status, solution, result, error, message, args, retval, db>>

None == <<>>

Some(v) == <<v>>

Range(s) == {s[i] : i \in DOMAIN s}

\* TLC evaluates [x \in S |-> e] afresh at every application; combined with the
\* empty function it is stored as a table, evaluated once.
Table(f) == f @@ <<>>

\* The recursions below split their argument in halves, so that their depth
\* stays small on the week-long sequences.
RECURSIVE SeqSum(_)
SeqSum(s) ==
    IF Len(s) = 0 THEN 0
    ELSE IF Len(s) = 1 THEN s[1]
    ELSE LET t == Table(s)
             h == Len(t) \div 2
         IN SeqSum(SubSeq(t, 1, h)) + SeqSum(SubSeq(t, h + 1, Len(t)))

\* list.extend of each piece in turn
RECURSIVE Flatten(_)
Flatten(ss) ==
    IF Len(ss) = 0 THEN <<>>
    ELSE IF Len(ss) = 1 THEN ss[1]
    ELSE LET t == Table(ss)
             h == Len(t) \div 2
         IN Flatten(SubSeq(t, 1, h)) \o Flatten(SubSeq(t, h + 1, Len(t)))

\* the distinct elements of a sequence in the order of their first occurrence
\* (the key order of a dict filled from it)
Distinct(seq) ==
    LET s == Table(seq)
        elems == Range(s)
        first == Table([x \in elems |->
                    CHOOSE n \in DOMAIN s : s[n] = x /\ \A m \in 1 .. (n - 1) : s[m] # x])
        rank == Table([x \in elems |-> Cardinality({y \in elems : first[y] < first[x]})])
    IN Table([r \in 1 .. Cardinality(elems) |-> CHOOSE x \in elems : rank[x] = r - 1])

\* the positions of a sequence of "HH:MM" strings in the order list.sort() puts
\* them: ascending by string comparison, equal strings in their original order
StableOrder(times) ==
    LET s == Table(times)
        Lt(x, y) == x[1] < y[1] \/ (x[1] = y[1] /\ x[2] < y[2])
        place == Table([n \in DOMAIN s |->
                    1 + Cardinality({m \in DOMAIN s :
                            \/ Lt(s[m], s[n])
                            \/ (s[m] = s[n] /\ m < n)})])
    IN Table([r \in DOMAIN s |-> CHOOSE n \in DOMAIN s : place[n] = r])

----------------------------------------------------------------------------
(* Time strings and timeslots (constraints.py, helper methods).            *)

SlotMinutes == 15

WeeklyLimitMinutes == 2400

\* Python's str < str on "HH:MM"
StrLt(a, b) == a[1] < b[1] \/ (a[1] = b[1] /\ a[2] < b[2])

StrLe(a, b) == a = b \/ StrLt(a, b)

\* f"{hour:02d}:{minute:02d}"
TimeStr(minutes) == <<minutes \div 60, minutes % 60>>

\* hour * 60 + minute after map(int, time.split(':'))
ParseMinutes(t) == t[1] * 60 + t[2]

weekday_names ==
    <<"monday", "tuesday", "wednesday", "thursday", "friday", "saturday", "sunday">>

weekdays == <<"monday", "tuesday", "wednesday", "thursday", "friday">>

\* list.index(name) on the five-name list; <<>> stands for the ValueError
WeekdayIndex(name) ==
    IF \E i \in DOMAIN weekdays : weekdays[i] = name
    THEN Some((CHOOSE i \in DOMAIN weekdays : weekdays[i] = name) - 1)
    ELSE None

\* the slots the loop "while current_min < end_min_total: ...; current_min += 15"
\* appends: one for each current_min = start, start + 15, ... below the end
_generate_timeslots(weekday, start_time, end_time) ==
    LET weekday_name == weekday_names[weekday + 1]
        current_min == ParseMinutes(start_time)
        end_min_total == ParseMinutes(end_time)
        count == IF current_min < end_min_total
                 THEN (end_min_total - current_min + SlotMinutes - 1) \div SlotMinutes
                 ELSE 0
    IN Table([n \in 1 .. count |->
                <<weekday_name, TimeStr(current_min + (n - 1) * SlotMinutes)>>])

\* _get_all_timeslots generating each day up to and including 18:00
_get_all_timeslots_through_1800 ==
    Flatten([d \in DOMAIN weekdays |-> _generate_timeslots(d - 1, <<6, 0>>, <<18, 15>>)])

_get_all_timeslots ==
    Flatten([d \in DOMAIN weekdays |-> _generate_timeslots(d - 1, <<6, 0>>, <<18, 0>>)])

AllTimeslotSet == Range(_get_all_timeslots)

_is_class_time(timeslot) ==
    StrLe(<<8, 30>>, timeslot[2]) /\ StrLt(timeslot[2], <<15, 0>>)

_get_timeslot_duration(timeslot) == SlotMinutes

----------------------------------------------------------------------------
(* Dates.                                                                  *)

IsLeap(y) == (y % 4 = 0 /\ y % 100 # 0) \/ y % 400 = 0

RECURSIVE DaysBeforeYear(_)
DaysBeforeYear(y) ==
    IF y <= 2024 THEN 0
    ELSE DaysBeforeYear(y - 1) + (IF IsLeap(y - 1) THEN 366 ELSE 365)

\* datetime(y, 1, d)
JanuaryDate(y, d) == DaysBeforeYear(y) + d - 1

\* datetime.weekday(): Monday is 0
DateWeekday(date) == date % 7

_get_week_start_date(yr, wk) ==
    LET jan_4 == JanuaryDate(yr, 4)
        week_1_monday == jan_4 - DateWeekday(jan_4)
    IN week_1_monday + 7 * (wk - 1)

_get_date_for_timeslot(timeslot, yr, wk) ==
    _get_week_start_date(yr, wk) + WeekdayIndex(timeslot[1])[1]

----------------------------------------------------------------------------
(* DemandModel and AvailabilityModel (constraints.py, helper methods).     *)
(* The operators read the ConstraintEngine's fields, which are the         *)
(* arguments of the running create_schedule call.                          *)

_get_care_times_for_student(student) ==
    LET week_start == _get_week_start_date(year, week_number)
        week_end == week_start + 7
        Expired(care_time) ==
            care_time.valid_to # None /\ care_time.valid_to[1] < week_start
        NotYetValid(care_time) == care_time.valid_from > week_end
    IN Flatten([i \in DOMAIN student.care_times |->
            LET care_time == student.care_times[i]
            IN IF Expired(care_time) \/ NotYetValid(care_time)
               THEN <<>>
               ELSE _generate_timeslots(care_time.weekday, care_time.start_time,
                                        care_time.end_time)])

\* the dict {weekday: {...}} the loop builds: a later applicable rule overwrites
RECURSIVE WorkSchedule(_, _)
WorkSchedule(work_hours, wk) ==
    IF work_hours = <<>> THEN <<>>
    ELSE LET n == Len(work_hours)
             work_hour == work_hours[n]
             earlier == WorkSchedule(SubSeq(work_hours, 1, n - 1), wk)
             week_parity == (wk % 2) + 1
         IN IF work_hour.week_number \notin {None, Some(0)}
               /\ work_hour.week_number # Some(week_parity)
            THEN earlier
            ELSE (work_hour.weekday :>
                    [start |-> work_hour.start_time, end |-> work_hour.end_time,
                     lunch_start |-> work_hour.lunch_start,
                     lunch_end |-> work_hour.lunch_end]) @@ earlier

_get_work_hours_for_staff(staff_member) ==
    WorkSchedule(staff_member.work_hours, week_number)

\* _is_staff_available with the lunch check (constraints.py:539-541) in force
_is_staff_available_lunch_excluded(staff_member, timeslot, work_hours, staff_absences) ==
    LET time_str == timeslot[2]
        weekday == WeekdayIndex(timeslot[1])[1]
        timeslot_date == _get_date_for_timeslot(timeslot, year, week_number)
    IN /\ weekday \in DOMAIN work_hours
       /\ ~ (StrLt(time_str, work_hours[weekday].start)
             \/ StrLe(work_hours[weekday].end, time_str))
       /\ ~ (/\ work_hours[weekday].lunch_start # None
             /\ work_hours[weekday].lunch_end # None
             /\ StrLe(work_hours[weekday].lunch_start[1], time_str)
             /\ StrLt(time_str, work_hours[weekday].lunch_end[1]))
       /\ \A i \in DOMAIN staff_absences :
            LET absence == staff_absences[i]
            IN absence.absence_date = timeslot_date =>
                 /\ absence.start_time # None
                 /\ absence.end_time # None
                 /\ ~ (StrLe(absence.start_time[1], time_str)
                       /\ StrLt(time_str, absence.end_time[1]))

_is_staff_available(staff_member, timeslot, work_hours, staff_absences) ==
    LET time_str == timeslot[2]
        weekday == WeekdayIndex(timeslot[1])[1]
        timeslot_date == _get_date_for_timeslot(timeslot, year, week_number)
    IN /\ weekday \in DOMAIN work_hours
       /\ ~ (StrLt(time_str, work_hours[weekday].start)
             \/ StrLe(work_hours[weekday].end, time_str))
       /\ \A i \in DOMAIN staff_absences :
            LET absence == staff_absences[i]
            IN absence.absence_date = timeslot_date =>
                 /\ absence.start_time # None
                 /\ absence.end_time # None
                 /\ ~ (StrLe(absence.start_time[1], time_str)
                       /\ StrLt(time_str, absence.end_time[1]))

_has_required_certifications(staff_member, requirements) ==
    requirements \subseteq staff_member.care_certifications

----------------------------------------------------------------------------
(* The CP-SAT model.  A BoolVar is [model, index]: the CpModel that made   *)
(* it and its index there; an expression handed to a CpModel refers to its *)
(* variables by index alone.  A constraint is a linear (in)equality        *)
(* coef * sum(terms) op rhs over variable indices, or a BoolAnd / BoolOr   *)
(* over literals <<index, polarity>>, enforced always (enf = <<>>) or only *)
(* when the literal enf holds (OnlyEnforceIf).                             *)

\* self.assignments is the scheduler's decision_vars dict itself
assignments == decision_vars.var

\* sum(...) over the variables stored under the keys: one term per key, named
\* by its key, holding the variable's index
TermsOf(keys) ==
    Table([k \in keys \cap DOMAIN assignments |-> assignments[k].index])

Lin(terms, coef, op, rhs, enf) ==
    [kind |-> "lin", terms |-> terms, lits |-> <<>>, coef |-> coef, op |-> op,
     rhs |-> rhs, enf |-> enf]

BoolCt(kind, lits, enf) ==
    [kind |-> kind, terms |-> TermsOf({}), lits |-> lits, coef |-> 1, op |-> "bool",
     rhs |-> 0, enf |-> enf]

StudentKeys(student, timeslot) ==
    {<<student.id, staff_member.id, timeslot>> : staff_member \in Range(staff)}
        \cap DOMAIN assignments

StaffKeys(staff_member, timeslot) ==
    {<<student.id, staff_member.id, timeslot>> : student \in Range(students)}
        \cap DOMAIN assignments

\* the keys the loops "for student ... for timeslot in _get_all_timeslots()" find
StaffGridKeys(staff_member) ==
    {k \in DOMAIN assignments :
        /\ k[2] = staff_member.id
        /\ k[3] \in AllTimeslotSet
        /\ \E student \in Range(students) : student.id = k[1]}

\* add_one_to_one_coverage asking for at least one carer at every tick
add_one_to_one_coverage_at_least ==
    UNION {
        {Lin(TermsOf(StudentKeys(student, timeslot)), 1, "ge", 1, None) :
            timeslot \in {t \in Range(_get_care_times_for_student(student)) :
                            StudentKeys(student, t) # {}}} :
        student \in {s \in Range(students) : ~ s.requires_double_staffing}}

add_one_to_one_coverage ==
    UNION {
        {Lin(TermsOf(StudentKeys(student, timeslot)), 1,
             IF _is_class_time(timeslot) THEN "ge" ELSE "eq", 1, None) :
            timeslot \in {t \in Range(_get_care_times_for_student(student)) :
                            StudentKeys(student, t) # {}}} :
        student \in {s \in Range(students) : ~ s.requires_double_staffing}}

\* add_care_needs_matching without its double-staffing branch
add_care_needs_matching_single_only ==
    UNION {
        LET care_requirements == student.care_requirements
            qualified_staff ==
                {f \in Range(staff) : _has_required_certifications(f, care_requirements)}
            care_times == Range(_get_care_times_for_student(student))
        IN IF qualified_staff = {} \/ student.requires_double_staffing THEN {}
           ELSE {Lin(TermsOf({k}), 1, "eq", 0, None) :
                    k \in {<<student.id, f.id, timeslot>> :
                            f \in Range(staff) \ qualified_staff, timeslot \in care_times}
                          \cap DOMAIN assignments} :
        student \in {s \in Range(students) :
                        s.has_care_needs /\ s.care_requirements # {}}}

add_care_needs_matching ==
    UNION {
        LET care_requirements == student.care_requirements
            qualified_staff ==
                {f \in Range(staff) : _has_required_certifications(f, care_requirements)}
            care_times == Range(_get_care_times_for_student(student))
        IN IF qualified_staff = {} THEN {}
           ELSE IF student.requires_double_staffing
           THEN {Lin(TermsOf({<<student.id, f.id, timeslot>> : f \in qualified_staff}),
                     1, "ge", 1, None) :
                    timeslot \in {t \in care_times :
                        {<<student.id, f.id, t>> : f \in qualified_staff}
                            \cap DOMAIN assignments # {}}}
           ELSE {Lin(TermsOf({k}), 1, "eq", 0, None) :
                    k \in {<<student.id, f.id, timeslot>> :
                            f \in Range(staff) \ qualified_staff, timeslot \in care_times}
                          \cap DOMAIN assignments} :
        student \in {s \in Range(students) :
                        s.has_care_needs /\ s.care_requirements # {}}}

add_double_staffing ==
    UNION {
        {Lin(TermsOf(StudentKeys(student, timeslot)), 1, "eq", 2, None) :
            timeslot \in {t \in Range(_get_care_times_for_student(student)) :
                            Cardinality(StudentKeys(student, t)) >= 2}} :
        student \in {s \in Range(students) : s.requires_double_staffing}}

StaffAbsences(staff_member) ==
    SelectSeq(absences, LAMBDA a : a.staff_id = staff_member.id)

add_staff_availability ==
    UNION {
        {Lin(TermsOf({k}), 1, "eq", 0, None) :
            k \in {key \in StaffGridKeys(staff_member) :
                    ~ _is_staff_available(staff_member, key[3],
                                          _get_work_hours_for_staff(staff_member),
                                          StaffAbsences(staff_member))}} :
        staff_member \in Range(staff)}

add_working_hours_limits ==
    {Lin(TermsOf(StaffGridKeys(staff_member)), SlotMinutes, "le", WeeklyLimitMinutes, None) :
        staff_member \in {f \in Range(staff) : StaffGridKeys(f) # {}}}

add_no_overlapping_assignments ==
    UNION {
        {Lin(TermsOf(StaffKeys(staff_member, timeslot)), 1, "le", 1, None) :
            timeslot \in {k[3] : k \in StaffGridKeys(staff_member)}} :
        staff_member \in Range(staff)}

add_all_hard_constraints ==
    add_one_to_one_coverage \cup add_care_needs_matching \cup add_double_staffing
        \cup add_staff_availability \cup add_working_hours_limits
        \cup add_no_overlapping_assignments

----------------------------------------------------------------------------
(* Soft constraints (constraints.py: add_all_soft_constraints).  Each      *)
(* indicator the code makes with NewBoolVar is described by a record; the  *)
(* n-th indicator gets the n-th index after the variables already in the   *)
(* model.                                                                  *)

PreferredWeight == -800

NotPreferredWeight == 10

OverworkWeight == 500

UnderworkWeight == 300

ContinuityWeight == -200

add_preference_matching ==
    Flatten([i \in DOMAIN students |->
        LET student == students[i]
            care_times == _get_care_times_for_student(student)
        IN IF student.preferred_staff = {} THEN <<>>
           ELSE Flatten([t \in DOMAIN care_times |->
                  Flatten([j \in DOMAIN staff |->
                    LET key == <<student.id, staff[j].id, care_times[t]>>
                    IN IF key \notin DOMAIN assignments THEN <<>>
                       ELSE <<<<assignments[key].index,
                                IF staff[j].id \in student.preferred_staff
                                THEN PreferredWeight ELSE NotPreferredWeight>>>>])])])

total_care_hours ==
    SeqSum([i \in DOMAIN students |-> Len(_get_care_times_for_student(students[i]))])

\* The <<total_care_hours, len(staff)>> up to 240 ticks and three staff for which
\* the double (total / n) * 1.2 falls just below the integer 12 * total / (10 * n)
\* that it equals in exact arithmetic, so that int() gives one less.  (total / n) *
\* 0.8 has no such case in this range.
FloatShortfall ==
    {<<35, 3>>, <<55, 3>>, <<70, 3>>, <<110, 3>>, <<125, 3>>, <<140, 3>>, <<155, 3>>,
     <<205, 3>>, <<220, 3>>, <<235, 3>>}

\* int((total / n) * 1.2) in double arithmetic
IntOfAvgTimes12(total, n) ==
    (12 * total) \div (10 * n) - (IF <<total, n>> \in FloatShortfall THEN 1 ELSE 0)

\* int((total / n) * 0.8) in double arithmetic
IntOfAvgTimes08(total, n) == (8 * total) \div (10 * n)

\* int(avg_hours_per_staff * 1.2), avg_hours_per_staff = total_care_hours / len(staff)
max_acceptable == IntOfAvgTimes12(total_care_hours, Len(staff))

\* int(avg_hours_per_staff * 0.8)
min_acceptable == IntOfAvgTimes08(total_care_hours, Len(staff))

WorkloadIndicators ==
    Flatten([j \in DOMAIN staff |->
        IF StaffGridKeys(staff[j]) = {} THEN <<>>
        ELSE LET total_hours == TermsOf(StaffGridKeys(staff[j]))
             IN <<[kind |-> "overwork", terms |-> total_hours,
                   first |-> max_acceptable, second |-> 0],
                  [kind |-> "underwork", terms |-> total_hours,
                   first |-> min_acceptable, second |-> 0]>>])

\* the groups as a sequence of <<day, timeslots>>: the days in the order the dict
\* first meets them, each day's timeslot strings sorted
_group_timeslots_by_day(timeslots) ==
    LET days == Distinct([n \in DOMAIN timeslots |-> timeslots[n][1]])
    IN Table([d \in DOMAIN days |->
          LET group == SelectSeq(timeslots, LAMBDA t : t[1] = days[d])
              order == StableOrder([n \in DOMAIN group |-> group[n][2]])
          IN <<days[d], Table([r \in DOMAIN group |-> group[order[r]]])>>])

ContinuityIndicators ==
    Flatten([i \in DOMAIN students |->
        LET student == students[i]
            timeslots_by_day == _group_timeslots_by_day(_get_care_times_for_student(student))
        IN Flatten([d \in DOMAIN timeslots_by_day |->
             LET timeslots == timeslots_by_day[d][2]
             IN IF Len(timeslots) < 2 THEN <<>>
                ELSE Flatten([n \in 1..(Len(timeslots) - 1) |->
                       Flatten([j \in DOMAIN staff |->
                         LET key1 == <<student.id, staff[j].id, timeslots[n]>>
                             key2 == <<student.id, staff[j].id, timeslots[n + 1]>>
                         IN IF key1 \in DOMAIN assignments /\ key2 \in DOMAIN assignments
                            THEN <<[kind |-> "continuity",
                                    terms |-> TermsOf({key1, key2}),
                                    first |-> assignments[key1].index,
                                    second |-> assignments[key2].index]>>
                            ELSE <<>>])])])])

\* IndicatorConstraints whose bound on a staff member's total is not conditional
\* on the overwork indicator
IndicatorConstraints_unconditional(ind, var) ==
    CASE ind.kind = "overwork" ->
            {Lin(ind.terms, 1, "gt", ind.first, <<var, TRUE>>),
             Lin(ind.terms, 1, "le", ind.first, None)}
      [] ind.kind = "underwork" ->
            {Lin(ind.terms, 1, "lt", ind.first, <<var, TRUE>>),
             Lin(ind.terms, 1, "ge", ind.first, <<var, FALSE>>)}
      [] ind.kind = "continuity" ->
            {BoolCt("bool_and", <<<<ind.first, TRUE>>, <<ind.second, TRUE>>>>,
                    <<var, TRUE>>),
             BoolCt("bool_or", <<<<ind.first, FALSE>>, <<ind.second, FALSE>>>>,
                    <<var, FALSE>>)}

IndicatorConstraints(ind, var) ==
    CASE ind.kind = "overwork" ->
            {Lin(ind.terms, 1, "gt", ind.first, <<var, TRUE>>),
             Lin(ind.terms, 1, "le", ind.first, <<var, FALSE>>)}
      [] ind.kind = "underwork" ->
            {Lin(ind.terms, 1, "lt", ind.first, <<var, TRUE>>),
             Lin(ind.terms, 1, "ge", ind.first, <<var, FALSE>>)}
      [] ind.kind = "continuity" ->
            {BoolCt("bool_and", <<<<ind.first, TRUE>>, <<ind.second, TRUE>>>>,
                    <<var, TRUE>>),
             BoolCt("bool_or", <<<<ind.first, FALSE>>, <<ind.second, FALSE>>>>,
                    <<var, FALSE>>)}

IndicatorWeight(ind) ==
    CASE ind.kind = "overwork" -> OverworkWeight
      [] ind.kind = "underwork" -> UnderworkWeight
      [] ind.kind = "continuity" -> ContinuityWeight

----------------------------------------------------------------------------
(* The solver (ortools CpSolver.Solve, called at scheduler.py:119),        *)
(* modelled by its contract: it answers MODEL_INVALID for a model that     *)
(* refers to a variable it does not have, INFEASIBLE when no valuation     *)
(* satisfies the constraints, OPTIMAL with a valuation of least objective, *)
(* FEASIBLE with any satisfying valuation found before the time budget ran *)
(* out, and UNKNOWN when the budget ran out first.  A valuation is the set *)
(* of the indices valued 1.                                                *)

ModelVars == 0 .. (model.nvars - 1)

TermIndices(c) ==
    Range(c.terms) \cup {l[1] : l \in Range(c.lits)}

EnfIndices(c) == IF c.enf = None THEN {} ELSE {c.enf[1]}

ValidModel ==
    /\ \A c \in model.constraints : TermIndices(c) \cup EnfIndices(c) \subseteq ModelVars
    /\ \A i \in DOMAIN model.objective : model.objective[i][1] \in ModelVars

\* the value of sum(terms): one for each term whose variable is valued 1
SumOf(terms, S) == Cardinality({k \in DOMAIN terms : terms[k] \in S})

Compare(lhs, op, rhs) ==
    CASE op = "eq" -> lhs = rhs
      [] op = "ge" -> lhs >= rhs
      [] op = "le" -> lhs <= rhs
      [] op = "gt" -> lhs > rhs
      [] op = "lt" -> lhs < rhs

LitHolds(lit, S) == (lit[1] \in S) = lit[2]

BodyHolds(c, S) ==
    CASE c.kind = "lin" -> Compare(c.coef * SumOf(c.terms, S), c.op, c.rhs)
      [] c.kind = "bool_and" -> \A l \in Range(c.lits) : LitHolds(l, S)
      [] c.kind = "bool_or" -> \E l \in Range(c.lits) : LitHolds(l, S)

Holds(c, S) == (c.enf # None /\ ~ LitHolds(c.enf, S)) \/ BodyHolds(c, S)

\* The valuations satisfying every constraint.  Variables that occur only as
\* an enforcement literal are valued after the others, each on its own; a
\* variable fixed by a one-variable constraint is not enumerated.
Solutions ==
    LET cs == model.constraints
        termVars == UNION {TermIndices(c) : c \in cs}
        pureInd == (UNION {EnfIndices(c) : c \in cs}) \ termVars
        core == ModelVars \ pureInd
        unit == {c \in cs : c.kind = "lin" /\ c.enf = None /\ c.coef = 1
                            /\ Cardinality(DOMAIN c.terms) = 1}
        forced0 == UNION {Range(c.terms) : c \in {u \in unit : u.op = "eq" /\ u.rhs = 0}}
        forced1 == UNION {Range(c.terms) :
                            c \in {u \in unit : u.op \in {"eq", "ge"} /\ u.rhs = 1}}
        enforcedBy == Table([i \in pureInd |->
                                {d \in cs : d.enf # None /\ d.enf[1] = i}])
        coreCs == {c \in cs : EnfIndices(c) \subseteq core}
        coreSols == {S \in {forced1 \cup T : T \in SUBSET (core \ (forced0 \cup forced1))} :
                        \A c \in coreCs : Holds(c, S)}
        Allowed(i, S) ==
            {b \in BOOLEAN :
                \A c \in enforcedBy[i] : c.enf[2] = b => BodyHolds(c, S)}
        Extensions(S) ==
            IF \E i \in pureInd : Allowed(i, S) = {} THEN {}
            ELSE {S \cup {i \in pureInd : Allowed(i, S) = {TRUE}} \cup J :
                    J \in SUBSET {i \in pureInd : Allowed(i, S) = BOOLEAN}}
    IN UNION {Extensions(S) : S \in coreSols}

ObjectiveValue(S) ==
    SeqSum([i \in DOMAIN model.objective |->
              IF model.objective[i][1] \in S THEN model.objective[i][2] ELSE 0])

----------------------------------------------------------------------------
(* SolutionDecoder (scheduler.py: _extract_solution and its helpers).      *)

_add_minutes_to_time(time_str, minutes) ==
    LET total_minutes == time_str[1] * 60 + time_str[2] + minutes
    IN <<(total_minutes \div 60) % 24, total_minutes % 60>>

_determine_assignment_type(student, time_str) ==
    IF student.requires_double_staffing THEN "double_staffing"
    ELSE IF StrLe(<<8, 30>>, time_str) /\ StrLt(time_str, <<15, 0>>) THEN "one_to_one"
    ELSE "leisure"

_map_solver_status(st) ==
    CASE st = "OPTIMAL" -> "optimal"
      [] st = "FEASIBLE" -> "feasible"
      [] st = "INFEASIBLE" -> "infeasible"
      [] st = "MODEL_INVALID" -> "error"
      [] OTHER -> "error"

_status_name(st) ==
    IF st \in {"OPTIMAL", "FEASIBLE", "INFEASIBLE", "MODEL_INVALID", "UNKNOWN"} THEN st
    ELSE "UNKNOWN(" \o st \o ")"

GroupKey(a) == <<a.staff_id, a.student_id, a.weekday>>

\* The fold over one sorted group.  When the loop reaches group[n], current's
\* end_time is group[n - 1]'s (it was either extended to it or started there), so
\* a block starts at n = 1 and wherever group[n - 1].end_time # group[n].start_time,
\* and it ends with the end_time of the last element before the next start.
\* MergeGroup leaving each block's end_time at its first tick's
MergeGroup_first_tick_only(group) ==
    LET starts == {n \in DOMAIN group :
                     n = 1 \/ group[n - 1].end_time # group[n].start_time}
        blocks == Table([r \in 1 .. Cardinality(starts) |->
                    CHOOSE n \in starts : Cardinality({m \in starts : m < n}) = r - 1])
    IN Table([b \in DOMAIN blocks |-> group[blocks[b]]])

MergeGroup(group) ==
    LET starts == {n \in DOMAIN group :
                     n = 1 \/ group[n - 1].end_time # group[n].start_time}
        Last(n) == IF \E m \in starts : m > n
                   THEN (CHOOSE m \in starts :
                            m > n /\ \A o \in starts : o > n => m <= o) - 1
                   ELSE Len(group)
        blocks == Table([r \in 1 .. Cardinality(starts) |->
                    CHOOSE n \in starts : Cardinality({m \in starts : m < n}) = r - 1])
    IN Table([b \in DOMAIN blocks |->
          [group[blocks[b]] EXCEPT !.end_time = group[Last(blocks[b])].end_time]])

\* _merge_consecutive_assignments without group.sort(...)
_merge_consecutive_assignments_unsorted(assigned) ==
    LET keys == Distinct([n \in DOMAIN assigned |-> GroupKey(assigned[n])])
    IN Flatten([g \in DOMAIN keys |->
          MergeGroup(Table(SelectSeq(assigned, LAMBDA a : GroupKey(a) = keys[g])))])

_merge_consecutive_assignments(assigned) ==
    LET keys == Distinct([n \in DOMAIN assigned |-> GroupKey(assigned[n])])
    IN Flatten([g \in DOMAIN keys |->
          LET group == SelectSeq(assigned, LAMBDA a : GroupKey(a) = keys[g])
              order == StableOrder([n \in DOMAIN group |-> group[n].start_time])
          IN MergeGroup(Table([r \in DOMAIN group |-> group[order[r]]]))])

\* solver.Value(var): the response's value at the variable's index
Value(var) == IF var.index \in solution THEN 1 ELSE 0

\* the exception the loop over decision_vars.items() stops with, or "none"
ExtractError ==
    LET keys == decision_vars.order
        Err(k) ==
            LET var == decision_vars.var[k]
            IN IF var.index \notin ModelVars THEN "IndexError"
               ELSE IF Value(var) = 1 /\ WeekdayIndex(k[3][1]) = None THEN "ValueError"
               ELSE IF Value(var) = 1 /\ ~ \E i \in DOMAIN students : students[i].id = k[1]
               THEN "StopIteration"
               ELSE "none"
        failing == {n \in DOMAIN keys : Err(keys[n]) # "none"}
    IN IF failing = {} THEN "none"
       ELSE Err(keys[CHOOSE n \in failing : \A m \in failing : n <= m])

ProvisionalAssignments ==
    LET active == SelectSeq(decision_vars.order,
                            LAMBDA k : Value(decision_vars.var[k]) = 1)
    IN Table([n \in DOMAIN active |->
          LET k == active[n]
              student == students[CHOOSE i \in DOMAIN students : students[i].id = k[1]]
          IN [staff_id |-> k[2], student_id |-> k[1],
              weekday |-> WeekdayIndex(k[3][1])[1],
              start_time |-> k[3][2],
              end_time |-> _add_minutes_to_time(k[3][2], SlotMinutes),
              assignment_type |-> _determine_assignment_type(student, k[3][2])]])

\* 200 * normalized of _calculate_soft_score: max(0, min(100, 50 - obj / 200))
SoftScoreTimes200(obj) ==
    LET raw == 10000 - obj
    IN IF raw < 0 THEN 0 ELSE IF raw > 20000 THEN 20000 ELSE raw

\* _extract_solution reporting the hard constraints as met whatever the status
_extract_solution_always_met ==
    [week_number |-> week_number, year |-> year,
     solver_status |-> _map_solver_status(status),
     objective_value |-> ObjectiveValue(solution),
     hard_constraints_met |-> TRUE,
     soft_constraints_score_x200 |-> SoftScoreTimes200(ObjectiveValue(solution)),
     is_published |-> FALSE,
     assignments |-> _merge_consecutive_assignments(ProvisionalAssignments)]

_extract_solution ==
    [week_number |-> week_number, year |-> year,
     solver_status |-> _map_solver_status(status),
     objective_value |-> ObjectiveValue(solution),
     hard_constraints_met |-> (status = "OPTIMAL"),
     soft_constraints_score_x200 |-> SoftScoreTimes200(ObjectiveValue(solution)),
     is_published |-> FALSE,
     assignments |-> _merge_consecutive_assignments(ProvisionalAssignments)]

----------------------------------------------------------------------------
(* The inputs a caller passes.  Week 12 of 2026 starts on Monday           *)
(* 2026-03-16.                                                             *)

CareTime(weekday, start_time, end_time) ==
    [weekday |-> weekday, start_time |-> start_time, end_time |-> end_time,
     valid_from |-> 0, valid_to |-> None]

WorkHour(weekday, tag, start_time, end_time) ==
    [weekday |-> weekday, week_number |-> tag, start_time |-> start_time,
     end_time |-> end_time, lunch_start |-> Some(<<12, 0>>), lunch_end |-> Some(<<13, 0>>)]

Student(id, double, has_care_needs, care_requirements, care_times) ==
    [id |-> id, requires_double_staffing |-> double, has_care_needs |-> has_care_needs,
     care_requirements |-> care_requirements, preferred_staff |-> {},
     care_times |-> care_times]

Staff(id, care_certifications, work_hours) ==
    [id |-> id, care_certifications |-> care_certifications, work_hours |-> work_hours]

\* Monday 08:15-08:45: a leisure tick and a class-time tick
MondayMorning == <<CareTime(0, <<8, 15>>, <<8, 45>>)>>

\* Monday 05:45-06:15: a tick before the 06:00 grid starts, and the first grid tick
MondayEarly == <<CareTime(0, <<5, 45>>, <<6, 15>>)>>

\* Saturday 08:00-08:15
SaturdayMorning == <<CareTime(5, <<8, 0>>, <<8, 15>>)>>

FullMonday == <<WorkHour(0, Some(0), <<6, 0>>, <<18, 0>>)>>

LateMonday == <<WorkHour(0, Some(0), <<8, 30>>, <<18, 0>>)>>

CareProfiles == {<<FALSE, {}>>, <<TRUE, {"epilepsy"}>>, <<FALSE, {"epilepsy"}>>}

ShortStudentLists ==
    LET first == {Student("s1", d, c[1], c[2], t) :
                    d \in BOOLEAN, c \in CareProfiles,
                    t \in {MondayMorning, MondayEarly, SaturdayMorning}}
        second == {Student("s2", FALSE, FALSE, {}, t) : t \in {MondayMorning, MondayEarly}}
    IN {<<>>} \cup {<<x>> : x \in first} \cup {<<x, y>> : x \in first, y \in second}

StaffProfiles(id) ==
    {Staff(id, certs, wh) : certs \in {{}, {"epilepsy"}}, wh \in {FullMonday, LateMonday}}

ShortStaffLists ==
    {<<>>} \cup {<<x>> : x \in StaffProfiles("a")}
         \cup {<<x, y>> : x \in StaffProfiles("a"), y \in StaffProfiles("b")}

\* a pool of three for one student
LargerStaffLists ==
    {<<x, y, Staff("c", {}, FullMonday)>> :
        x \in StaffProfiles("a"), y \in StaffProfiles("b")}

FullDayAbsence(staff_id, weekday) ==
    [staff_id |-> staff_id, absence_date |-> _get_week_start_date(2026, 12) + weekday,
     start_time |-> None, end_time |-> None]

ShortInputs ==
    {[students |-> ss, staff |-> fs, week_number |-> 12, year |-> 2026, absences |-> ab] :
        ss \in ShortStudentLists, fs \in ShortStaffLists,
        ab \in {<<>>, <<FullDayAbsence("a", 0)>>}}
    \cup
    {[students |-> ss, staff |-> fs, week_number |-> 12, year |-> 2026, absences |-> <<>>] :
        ss \in {l \in ShortStudentLists : Len(l) = 1}, fs \in LargerStaffLists}

\* One student in care all day on the first n weekdays, on the grid (06:00-18:00)
\* or five minutes off it (06:05-18:05), and one staff member on duty 06:00-18:00
\* on the first k weekdays.
LongCareTimes(start_time, end_time, n) ==
    [d \in 1 .. n |-> CareTime(d - 1, start_time, end_time)]

LongWorkHours(k) == [d \in 1 .. k |-> WorkHour(d - 1, Some(0), <<6, 0>>, <<18, 0>>)]

LongInputs ==
    {[students |-> <<Student("s1", FALSE, FALSE, {}, LongCareTimes(w[1], w[2], n))>>,
      staff |-> <<Staff("a", {}, LongWorkHours(k))>>,
      week_number |-> 12, year |-> 2026, absences |-> ab] :
        w \in {<<<<6, 0>>, <<18, 0>>>>, <<<<6, 5>>, <<18, 5>>>>},
        n \in {3, 4, 5}, k \in {3, 5},
        ab \in {<<>>, <<FullDayAbsence("a", 2)>>}}

\* What a caller that keeps one scheduler for several weeks may pass.
ReuseInputs ==
    {[students |-> ss, staff |-> fs, week_number |-> 12, year |-> 2026, absences |-> <<>>] :
        ss \in {<<Student("s1", FALSE, FALSE, {}, MondayMorning)>>,
                <<Student("s1", FALSE, FALSE, {}, MondayEarly)>>,
                <<Student("s2", FALSE, FALSE, {}, SaturdayMorning)>>,
                <<Student("s1", FALSE, FALSE, {}, MondayMorning),
                  Student("s2", FALSE, FALSE, {}, MondayMorning)>>,
                <<>>},
        fs \in {<<Staff("a", {}, FullMonday)>>,
                <<Staff("b", {}, FullMonday)>>,
                <<Staff("a", {}, FullMonday), Staff("b", {}, LateMonday)>>,
                <<>>}}

\* Monday 08:15-09:00: a leisure tick and two class-time ticks
MondayThree == <<CareTime(0, <<8, 15>>, <<9, 0>>)>>

\* a student without care needs who names preferred staff (the strings of their ids)
PreferringStudent(id, care_times, preferred_staff) ==
    [Student(id, FALSE, FALSE, {}, care_times) EXCEPT !.preferred_staff = preferred_staff]

\* One student naming one of two staff members, who are both on duty all Monday.
PreferenceInputs ==
    {[students |-> <<PreferringStudent("s1", t, {p})>>, staff |-> fs,
      week_number |-> 12, year |-> 2026, absences |-> <<>>] :
        t \in {MondayMorning, MondayThree}, p \in {"a", "b"},
        fs \in {<<Staff("a", {}, FullMonday), Staff("b", {}, FullMonday)>>,
                <<Staff("b", {}, FullMonday), Staff("a", {}, FullMonday)>>}}

\* Monday 08:00-08:15 and Monday 15:00-15:15: care before and after school
MondaySplit == <<CareTime(0, <<8, 0>>, <<8, 15>>), CareTime(0, <<15, 0>>, <<15, 15>>)>>

\* One student in care on Monday in one stretch or in two, and one or two staff.
SplitInputs ==
    {[students |-> <<Student("s1", FALSE, FALSE, {}, t)>>, staff |-> fs,
      week_number |-> 12, year |-> 2026, absences |-> <<>>] :
        t \in {MondayMorning, MondayThree, MondaySplit},
        fs \in {<<Staff("a", {}, FullMonday)>>,
                <<Staff("a", {}, FullMonday), Staff("b", {}, FullMonday)>>}}

\* Monday 08:30-09:30: four ticks of class time
MondayClassHour == <<CareTime(0, <<8, 30>>, <<9, 30>>)>>

\* One student without preferred staff in care for three or four ticks on Monday,
\* and two or three staff on duty all Monday.
OverstaffInputs ==
    {[students |-> <<Student("s1", FALSE, FALSE, {}, t)>>, staff |-> fs,
      week_number |-> 12, year |-> 2026, absences |-> <<>>] :
        t \in {MondayThree, MondayClassHour},
        fs \in {<<Staff("a", {}, FullMonday), Staff("b", {}, FullMonday)>>,
                <<Staff("a", {}, FullMonday), Staff("b", {}, FullMonday),
                  Staff("c", {}, FullMonday)>>}}

Inputs(u) ==
    CASE u = "short" -> ShortInputs
      [] u = "long" -> LongInputs
      [] u = "reuse" -> ReuseInputs
      [] u = "prefs" -> PreferenceInputs
      [] u = "split" -> SplitInputs
      [] u = "overstaff" -> OverstaffInputs

----------------------------------------------------------------------------
(* SchoolScheduler: __init__ and create_schedule, step by step.            *)

NoModel == [id |-> 0, nvars |-> 0, constraints |-> {}, objective |-> <<>>]

EmptyDict == [order |-> <<>>, var |-> <<>>]

\* the schedules table before any request
EmptyStore == [schedules |-> {}, issued |-> 0]

\* a scheduler just constructed (__init__), before any call
Fresh(u) ==
    /\ pc = "ready"
    /\ calls = 0
    /\ universe = u
    /\ students = <<>>
    /\ staff = <<>>
    /\ week_number = 0
    /\ year = 0
    /\ absences = <<>>
    /\ model = NoModel
    /\ decision_vars = EmptyDict
    /\ status = "none"
    /\ solution = {}
    /\ result = None
    /\ error = "none"
    /\ message = ""
    /\ args = None
    /\ retval = None
    /\ db = EmptyStore

Init == Fresh("short")

\* SchoolScheduler(): a new instance replaces the used one
Construct ==
    /\ pc \in {"returned", "raised"}
    /\ pc' = "ready"
    /\ calls' = 0
    /\ students' = <<>>
    /\ staff' = <<>>
    /\ week_number' = 0
    /\ year' = 0
    /\ absences' = <<>>
    /\ model' = NoModel
    /\ decision_vars' = EmptyDict
    /\ status' = "none"
    /\ solution' = {}
    /\ result' = None
    /\ error' = "none"
    /\ message' = ""
    /\ UNCHANGED <<universe, args, retval, db>>

\* Enter making the CpModel before it validates its inputs
Enter_model_first(in) ==
    /\ calls' = calls + 1
    /\ students' = in.students
    /\ staff' = in.staff
    /\ week_number' = in.week_number
    /\ year' = in.year
    /\ absences' = in.absences
    /\ status' = "none"
    /\ solution' = {}
    /\ result' = None
    /\ model' = [id |-> calls + 1, nvars |-> 0, constraints |-> {}, objective |-> <<>>]
    /\ IF in.students = <<>> \/ in.staff = <<>>
       THEN /\ pc' = "raised"
            /\ error' = "SchedulingError"
            /\ message' = IF in.students = <<>> THEN "No students provided"
                          ELSE "No staff provided"
       ELSE /\ pc' = "variables"
            /\ error' = "none"
            /\ message' = ""
    /\ UNCHANGED <<universe, decision_vars, args, retval, db>>

\* create_schedule up to the ConstraintEngine's construction
Enter(in) ==
    /\ calls' = calls + 1
    /\ students' = in.students
    /\ staff' = in.staff
    /\ week_number' = in.week_number
    /\ year' = in.year
    /\ absences' = in.absences
    /\ status' = "none"
    /\ solution' = {}
    /\ result' = None
    /\ IF in.students = <<>> \/ in.staff = <<>>
       THEN /\ pc' = "raised"
            /\ error' = "SchedulingError"
            /\ message' = IF in.students = <<>> THEN "No students provided"
                          ELSE "No staff provided"
            /\ UNCHANGED model
       ELSE /\ pc' = "variables"
            /\ error' = "none"
            /\ message' = ""
            /\ model' = [id |-> calls + 1, nvars |-> 0, constraints |-> {},
                         objective |-> <<>>]
    /\ UNCHANGED <<universe, decision_vars, args, retval, db>>

create_schedule ==
    /\ pc = "ready"
    /\ \E in \in Inputs(universe) : Enter(in)


\* VariableKeys leaving out the staff members who are not available at the tick
VariableKeys_available_only ==
    Flatten([i \in DOMAIN students |->
        LET student_timeslots == _get_care_times_for_student(students[i])
        IN Flatten([j \in DOMAIN staff |->
             LET on_duty == SelectSeq(student_timeslots, LAMBDA t :
                               t \in AllTimeslotSet =>
                                  _is_staff_available(staff[j], t,
                                      _get_work_hours_for_staff(staff[j]),
                                      StaffAbsences(staff[j])))
             IN Table([t \in DOMAIN on_duty |->
                   <<students[i].id, staff[j].id, on_duty[t]>>])])])

\* the keys in the order the three loops of _create_decision_variables visit them
VariableKeys ==
    Flatten([i \in DOMAIN students |->
        LET student_timeslots == _get_care_times_for_student(students[i])
        IN Flatten([j \in DOMAIN staff |->
             Table([t \in DOMAIN student_timeslots |->
                <<students[i].id, staff[j].id, student_timeslots[t]>>])])])

\* self.decision_vars[key] = self.model.NewBoolVar(...) for every visited key: the
\* dict keeps what it held, a key met again keeps its place and gets the new variable
NewDecisionVars(old, keys, cp) ==
    LET visited == Table(keys)
        fresh == Range(visited)
        Last(k) == LET at == {n \in DOMAIN visited : visited[n] = k}
                   IN CHOOSE n \in at : \A m \in at : m <= n
    IN [order |-> old.order
                    \o SelectSeq(Distinct(visited), LAMBDA k : k \notin DOMAIN old.var),
        var |-> Table([k \in DOMAIN old.var \cup fresh |->
                    IF k \in fresh
                    THEN [model |-> cp.id, index |-> cp.nvars + Last(k) - 1]
                    ELSE old.var[k]])]

_create_decision_variables ==
    /\ pc = "variables"
    /\ decision_vars' = NewDecisionVars(decision_vars, VariableKeys, model)
    /\ model' = [model EXCEPT !.nvars = @ + Len(VariableKeys)]
    /\ pc' = "hard"
    /\ UNCHANGED <<calls, universe, students, staff, week_number, year, absences,
                   status, solution, result, error, message, args, retval, db>>

AddHardConstraints ==
    /\ pc = "hard"
    /\ model' = [model EXCEPT !.constraints = @ \cup add_all_hard_constraints]
    /\ pc' = "soft"
    /\ UNCHANGED <<calls, universe, students, staff, week_number, year, absences,
                   decision_vars, status, solution, result, error, message, args, retval, db>>

\* add_all_soft_constraints and _create_objective_function
AddSoftConstraints ==
    /\ pc = "soft"
    /\ \E inds \in {Table(WorkloadIndicators \o ContinuityIndicators)} :
         LET Var(n) == model.nvars + n - 1
         IN model' = [model EXCEPT
              !.nvars = @ + Len(inds),
              !.constraints = @ \cup UNION {IndicatorConstraints(inds[n], Var(n)) :
                                              n \in DOMAIN inds},
              !.objective = add_preference_matching
                              \o [n \in DOMAIN inds |-> <<Var(n), IndicatorWeight(inds[n])>>]]
    /\ pc' = "solve"
    /\ UNCHANGED <<calls, universe, students, staff, week_number, year, absences,
                   decision_vars, status, solution, result, error, message, args, retval, db>>

\* what Solve may answer: <<status, valuation>>
SolverOutcomes ==
    IF ~ ValidModel THEN {<<"MODEL_INVALID", {}>>}
    ELSE LET sols == Solutions
             value == Table([S \in sols |-> ObjectiveValue(S)])
             optimal == {S \in sols : \A T \in sols : value[S] <= value[T]}
         IN {<<"UNKNOWN", {}>>}
              \cup (IF sols = {} THEN {<<"INFEASIBLE", {}>>} ELSE {})
              \cup {<<"FEASIBLE", S>> : S \in sols}
              \cup {<<"OPTIMAL", S>> : S \in optimal}

Solve ==
    /\ pc = "solve"
    /\ \E out \in SolverOutcomes : status' = out[1] /\ solution' = out[2]
    /\ pc' = "solved"
    /\ UNCHANGED <<calls, universe, students, staff, week_number, year, absences,
                   model, decision_vars, result, error, message, args, retval, db>>

\* ReturnSchedule taking every status but UNKNOWN for a solution
ReturnSchedule_unless_unknown ==
    /\ pc = "solved"
    /\ status # "UNKNOWN"
    /\ IF ExtractError = "none"
       THEN /\ result' = Some(_extract_solution)
            /\ error' = "none"
            /\ pc' = "returned"
       ELSE /\ result' = None
            /\ error' = ExtractError
            /\ pc' = "raised"
    /\ message' = ""
    /\ UNCHANGED <<calls, universe, students, staff, week_number, year, absences,
                   model, decision_vars, status, solution, args, retval, db>>

\* status in [OPTIMAL, FEASIBLE]: extract, merge and return the schedule
ReturnSchedule ==
    /\ pc = "solved"
    /\ status \in {"OPTIMAL", "FEASIBLE"}
    /\ IF ExtractError = "none"
       THEN /\ result' = Some(_extract_solution)
            /\ error' = "none"
            /\ pc' = "returned"
       ELSE /\ result' = None
            /\ error' = ExtractError
            /\ pc' = "raised"
    /\ message' = ""
    /\ UNCHANGED <<calls, universe, students, staff, week_number, year, absences,
                   model, decision_vars, status, solution, args, retval, db>>

\* INFEASIBLE, MODEL_INVALID, UNKNOWN or any other status
RaiseSchedulingError ==
    /\ pc = "solved"
    /\ status \notin {"OPTIMAL", "FEASIBLE"}
    /\ result' = None
    /\ error' = "SchedulingError"
    /\ message' = CASE status = "INFEASIBLE" -> "No feasible schedule exists"
                     [] status = "MODEL_INVALID" ->
                            "Invalid model - internal error in constraint setup"
                     [] OTHER -> "Solver failed with status: " \o _status_name(status)
    /\ pc' = "raised"
    /\ UNCHANGED <<calls, universe, students, staff, week_number, year, absences,
                   model, decision_vars, status, solution, args, retval, db>>

Next ==
    \/ Construct
    \/ create_schedule
    \/ _create_decision_variables
    \/ AddHardConstraints
    \/ AddSoftConstraints
    \/ Solve
    \/ ReturnSchedule
    \/ RaiseSchedulingError

\* every caller in the repository: a new SchoolScheduler for each create_schedule
Spec == Init /\ [][Next]_vars

InitLong == Fresh("long")

SpecLong == InitLong /\ [][Next]_vars

InitPrefs == Fresh("prefs")

SpecPrefs == InitPrefs /\ [][Next]_vars

InitSplit == Fresh("split")

SpecSplit == InitSplit /\ [][Next]_vars

InitOverstaff == Fresh("overstaff")

SpecOverstaff == InitOverstaff /\ [][Next]_vars

MaxCalls == 2

\* create_schedule called again on the instance that has already been used
create_schedule_again ==
    /\ pc \in {"returned", "raised"}
    /\ calls < MaxCalls
    /\ \E in \in Inputs(universe) : Enter(in)

NextReuse == Next \/ create_schedule_again

InitReuse == Fresh("reuse")

SpecReuse == InitReuse /\ [][NextReuse]_vars

----------------------------------------------------------------------------
(* Helpers called on their own, on arguments drawn from a menu.            *)

engine == <<calls, universe, students, staff, week_number, year, absences,
            model, decision_vars, status, solution, result, error, message>>

\* a helper of universe u about to be called with the arguments a, on an engine
\* made for week wk of the year yr
Called(u, a, wk, yr) ==
    /\ pc = "call"
    /\ universe = u
    /\ args = a
    /\ retval = None
    /\ calls = 0
    /\ students = <<>>
    /\ staff = <<>>
    /\ week_number = wk
    /\ year = yr
    /\ absences = <<>>
    /\ model = NoModel
    /\ decision_vars = EmptyDict
    /\ status = "none"
    /\ solution = {}
    /\ result = None
    /\ error = "none"
    /\ message = ""
    /\ db = EmptyStore

\* the StaffAssignment _extract_solution makes of one variable valued 1
TickAssignment(staff_id, student_id, weekday, start_time) ==
    [staff_id |-> staff_id, student_id |-> student_id, weekday |-> weekday,
     start_time |-> start_time,
     end_time |-> _add_minutes_to_time(start_time, SlotMinutes),
     assignment_type |->
        _determine_assignment_type([requires_double_staffing |-> FALSE], start_time)]

\* nine grid ticks: a run of four and the day's last tick for one pair on Monday,
\* two ticks of another staff member, one on Tuesday, one of another student
TickPool ==
    <<TickAssignment("a", "s1", 0, <<8, 0>>), TickAssignment("a", "s1", 0, <<8, 15>>),
      TickAssignment("a", "s1", 0, <<8, 30>>), TickAssignment("a", "s1", 0, <<8, 45>>),
      TickAssignment("a", "s1", 0, <<17, 45>>), TickAssignment("b", "s1", 0, <<8, 15>>),
      TickAssignment("b", "s1", 0, <<8, 30>>), TickAssignment("a", "s1", 1, <<8, 15>>),
      TickAssignment("a", "s2", 0, <<8, 45>>)>>

\* the permutations of 1 .. n
IndexPermutations(n) ==
    {f \in [1 .. n -> 1 .. n] : \A i, j \in 1 .. n : f[i] = f[j] => i = j}

\* up to four of the first six ticks of the pool, in every order
PermutedInputs ==
    UNION {{[i \in 1 .. n |-> TickPool[f[i]]] :
              f \in {g \in [1 .. n -> 1 .. 6] : \A i, j \in 1 .. n : g[i] = g[j] => i = j}} :
            n \in 0 .. 4}

\* every set of ticks of the pool, listed in the pool's order or in the reverse
\* one, and the short lists in every order
MergeInputs ==
    LET reversed == [n \in DOMAIN TickPool |-> TickPool[Len(TickPool) + 1 - n]]
    IN {SelectSeq(p, LAMBDA a : a \in T) :
          T \in SUBSET Range(TickPool), p \in {TickPool, reversed}}
       \cup PermutedInputs

InitMerge == \E a \in MergeInputs : Called("merge", a, 0, 0)

Call_merge_consecutive_assignments ==
    /\ pc = "call"
    /\ universe = "merge"
    /\ retval' = Some(_merge_consecutive_assignments(args))
    /\ pc' = "done"
    /\ UNCHANGED <<engine, args, db>>

NextMerge == Call_merge_consecutive_assignments

SpecMerge == InitMerge /\ [][NextMerge]_vars

\* the weeks the helpers are called for: <<week_number, year>>
Weeks == {<<12, 2026>>, <<1, 2025>>, <<1, 2027>>, <<53, 2026>>}

\* a temporary care-time rule
TemporaryCareTime(weekday, start_time, end_time, valid_from, valid_to) ==
    [weekday |-> weekday, start_time |-> start_time, end_time |-> end_time,
     valid_from |-> valid_from, valid_to |-> valid_to]

\* a student with one rule of two ticks on a Monday, Wednesday or Friday, valid
\* from a day before, in or after the week, for ever or up to such a day
CareInputs ==
    LET Rule(d, from, to, w) ==
            LET week_start == _get_week_start_date(w[2], w[1])
            IN TemporaryCareTime(d, <<8, 0>>, <<8, 30>>, week_start + from,
                                 IF to = None THEN None ELSE Some(week_start + to[1]))
    IN {<<Student("s1", FALSE, FALSE, {}, <<Rule(d, v[1], v[2], w)>>), w>> :
          d \in {0, 2, 4}, w \in Weeks,
          v \in {x \in {-30, 0, 2, 6, 7, 8} \X {None, <<-1>>, <<0>>, <<2>>, <<3>>, <<7>>, <<30>>} :
                    x[2] = None \/ x[1] <= x[2][1]}}

InitCare == \E in \in CareInputs : Called("care", in[1], in[2][1], in[2][2])

Call_get_care_times_for_student ==
    /\ pc = "call"
    /\ universe = "care"
    /\ retval' = Some(_get_care_times_for_student(args))
    /\ pc' = "done"
    /\ UNCHANGED <<engine, args, db>>

NextCare == Call_get_care_times_for_student

SpecCare == InitCare /\ [][NextCare]_vars

\* a staff member with, for one weekday, an every-week rule (tag None or 0,
\* 06:00-18:00) and a rotation rule (tag 1 or 2, 08:30-16:00), in either order, or
\* with one of the two alone
RotaInputs ==
    LET Every(d, tag) == WorkHour(d, tag, <<6, 0>>, <<18, 0>>)
        Rotation(d, tag) == WorkHour(d, Some(tag), <<8, 30>>, <<16, 0>>)
    IN {<<Staff("a", {}, wh), w>> :
          w \in Weeks,
          wh \in UNION {{<<Every(d, e), Rotation(d, r)>>, <<Rotation(d, r), Every(d, e)>>,
                         <<Every(d, e)>>, <<Rotation(d, r)>>} :
                           d \in {0, 2, 4}, e \in {None, Some(0)}, r \in {1, 2}}}

InitRota == \E in \in RotaInputs : Called("rota", in[1], in[2][1], in[2][2])

Call_get_work_hours_for_staff ==
    /\ pc = "call"
    /\ universe = "rota"
    /\ retval' = Some(_get_work_hours_for_staff(args))
    /\ pc' = "done"
    /\ UNCHANGED <<engine, args, db>>

NextRota == Call_get_work_hours_for_staff

SpecRota == InitRota /\ [][NextRota]_vars

\* a full-day absence dated date
AbsenceOn(staff_id, date) ==
    [staff_id |-> staff_id, absence_date |-> date, start_time |-> None, end_time |-> None]

\* generate_schedule: the date range it queries absences for, and the rows the
\* query returns from the absences table
generate_schedule_absences(yr, wk, table) ==
    LET year_start == JanuaryDate(yr, 1)
        days_to_monday == (7 - DateWeekday(year_start)) % 7
        first_monday == year_start + days_to_monday
        week_start == first_monday + 7 * (wk - 1)
        week_end == week_start + 7
    IN [week_start |-> week_start, week_end |-> week_end,
        absences |-> SelectSeq(table, LAMBDA row : /\ row.absence_date >= week_start
                                                   /\ row.absence_date < week_end)]

\* a request for a week of 2024-2028 and an absences table of one row, dated in
\* the week before the engine's week, in it or in the week after
WeekInputs ==
    {[year |-> y, week_number |-> k,
      table |-> <<AbsenceOn("a", _get_week_start_date(y, k) + n)>>] :
        y \in 2024 .. 2028, k \in {1, 12, 52}, n \in {-7, -1, 0, 4, 6, 7, 13}}

InitWeek == \E in \in WeekInputs : Called("week", in, in.week_number, in.year)

Call_generate_schedule_absences ==
    /\ pc = "call"
    /\ universe = "week"
    /\ retval' = Some(generate_schedule_absences(args.year, args.week_number, args.table))
    /\ pc' = "done"
    /\ UNCHANGED <<engine, args, db>>

NextWeek == Call_generate_schedule_absences

SpecWeek == InitWeek /\ [][NextWeek]_vars

\* a timeslot of any weekday, at a quarter of an hour or a minute off the bounds
\* of class time
GridInputs ==
    {<<weekday_names[d], TimeStr(m)>> :
        d \in DOMAIN weekday_names,
        m \in {15 * q : q \in 0 .. 95} \cup {509, 511, 899, 901}}

InitGrid == \E t \in GridInputs : Called("grid", t, 0, 0)

Call_get_all_timeslots ==
    /\ pc = "call"
    /\ universe = "grid"
    /\ retval' = Some([timeslots |-> _get_all_timeslots,
                       is_class_time |-> _is_class_time(args)])
    /\ pc' = "done"
    /\ UNCHANGED <<engine, args, db>>

NextGrid == Call_get_all_timeslots

SpecGrid == InitGrid /\ [][NextGrid]_vars

\* an absence from start_time to end_time (either may be missing) on a date
PartialAbsence(staff_id, date, start_time, end_time) ==
    [staff_id |-> staff_id, absence_date |-> date,
     start_time |-> start_time, end_time |-> end_time]

\* a staff member with one or two work-hour rules of a Monday or a Wednesday, with
\* or without a lunch window, a tick of one of these days, and no absence or one:
\* full-day or 08:00-12:15, on the tick's date or on the day after
AvailabilityInputs ==
    LET Lunch(n, wh) ==
            IF n = 1 THEN wh
            ELSE [k \in DOMAIN wh |->
                    [wh[k] EXCEPT !.lunch_start = None, !.lunch_end = None]]
        Absences(date) ==
            {<<>>} \cup
            {<<PartialAbsence("a", date + n, h[1], h[2])>> :
                n \in {0, 1},
                h \in {<<None, None>>, <<Some(<<8, 0>>), Some(<<12, 15>>)>>,
                        <<Some(<<8, 0>>), None>>}}
    IN {[staff |-> [in[1] EXCEPT !.work_hours = Lunch(n, @)],
         timeslot |-> <<weekdays[d + 1], t>>,
         absences |-> ab, week |-> in[2]] :
           in \in {x \in RotaInputs : x[2] \in {<<12, 2026>>, <<1, 2025>>}
                                       /\ x[1].work_hours[1].weekday \in {0, 2}},
           n \in {1, 2}, d \in {0, 2},
           t \in {<<6, 0>>, <<8, 15>>, <<8, 30>>, <<12, 0>>, <<12, 15>>, <<16, 0>>, <<17, 45>>},
           ab \in UNION {Absences(_get_week_start_date(w[2], w[1]) + e) :
                           w \in {<<12, 2026>>, <<1, 2025>>}, e \in {0, 2}}}

InitAvailability ==
    \E in \in {x \in AvailabilityInputs :
                  \A i \in DOMAIN x.absences :
                     x.absences[i].absence_date
                        \in {_get_date_for_timeslot(x.timeslot, x.week[2], x.week[1]) + n :
                               n \in {0, 1}}} :
        Called("availability", in, in.week[1], in.week[2])

Call_is_staff_available ==
    /\ pc = "call"
    /\ universe = "availability"
    /\ retval' = Some(_is_staff_available(args.staff, args.timeslot,
                                          _get_work_hours_for_staff(args.staff),
                                          args.absences))
    /\ pc' = "done"
    /\ UNCHANGED <<engine, args, db>>

NextAvailability == Call_is_staff_available

SpecAvailability == InitAvailability /\ [][NextAvailability]_vars

\* the required ticks of all students, the number of staff, and the ticks one
\* staff member is assigned
WorkloadInputs ==
    {[total_care_hours |-> t, staff |-> n, total_hours |-> h] :
        t \in 0 .. 12 \cup {35}, n \in 1 .. 3, h \in 0 .. 35}

InitWorkload ==
    \E in \in {x \in WorkloadInputs : x.total_hours <= x.total_care_hours} :
        Called("workload", in, 0, 0)

\* add_workload_balance for one staff member whose total_hours sums the variables
\* 0 .. t - 1, of which the first total_hours are valued 1: the two thresholds,
\* and the values its constraints leave to overwork_var and underwork_var
Call_add_workload_balance ==
    /\ pc = "call"
    /\ universe = "workload"
    /\ LET t == args.total_care_hours
           terms == Table([k \in 1 .. t |-> k - 1])
           S == 0 .. (args.total_hours - 1)
           max == IntOfAvgTimes12(t, args.staff)
           min == IntOfAvgTimes08(t, args.staff)
           Left(ind) ==
               {b \in BOOLEAN :
                   \A c \in IndicatorConstraints(ind, t) :
                       Holds(c, IF b THEN S \cup {t} ELSE S)}
       IN retval' = Some([max_acceptable |-> max, min_acceptable |-> min,
                          overwork |-> Left([kind |-> "overwork", terms |-> terms,
                                             first |-> max, second |-> 0]),
                          underwork |-> Left([kind |-> "underwork", terms |-> terms,
                                              first |-> min, second |-> 0])])
    /\ pc' = "done"
    /\ UNCHANGED <<engine, args, db>>

NextWorkload == Call_add_workload_balance

SpecWorkload == InitWorkload /\ [][NextWorkload]_vars

----------------------------------------------------------------------------
(* The schedule routes (api/schedules.py) over the schedules table.  Each  *)
(* request is served whole; args holds the request and retval the HTTP     *)
(* status of the response.                                                 *)

\* how many schedule ids (uuid4) are issued
MaxSchedules == 4

ScheduleIds == 1 .. MaxSchedules

\* the valid ScheduleCreate bodies: week_number, year, force_regenerate
ScheduleCreates ==
    [week_number : {12, 13}, year : {2026}, force_regenerate : BOOLEAN]

\* what generate_schedule gets before it writes: no active students or staff,
\* a SchedulingError from create_schedule, or a Schedule whose
\* hard_constraints_met is TRUE (OPTIMAL) or FALSE (FEASIBLE)
CreateOutcomes == {"no_active", "SchedulingError", "OPTIMAL", "FEASIBLE"}

\* the row create_schedule builds: a new id, is_published False
ScheduleRow(id, schedule_data, outcome) ==
    [id |-> id, week_number |-> schedule_data.week_number, year |-> schedule_data.year,
     hard_constraints_met |-> (outcome = "OPTIMAL"), is_published |-> FALSE]

\* db.query(Schedule).filter(...).first(): a matching row, or None
First(rows) == IF rows = {} THEN {None} ELSE {Some(r) : r \in rows}

InitStore ==
    /\ pc = "serving"
    /\ universe = "store"
    /\ args = None
    /\ retval = None
    /\ db = EmptyStore
    /\ calls = 0
    /\ students = <<>>
    /\ staff = <<>>
    /\ week_number = 0
    /\ year = 0
    /\ absences = <<>>
    /\ model = NoModel
    /\ decision_vars = EmptyDict
    /\ status = "none"
    /\ solution = {}
    /\ result = None
    /\ error = "none"
    /\ message = ""

generate_schedule ==
    /\ pc = "serving"
    /\ universe = "store"
    /\ \E schedule_data \in ScheduleCreates, outcome \in CreateOutcomes :
         \E existing \in First({r \in db.schedules :
                                   /\ r.week_number = schedule_data.week_number
                                   /\ r.year = schedule_data.year}) :
            /\ args' = Some([route |-> "generate", body |-> schedule_data])
            /\ IF existing # None /\ ~ schedule_data.force_regenerate
               THEN retval' = Some(409) /\ db' = db
               ELSE IF outcome = "no_active"
               THEN retval' = Some(400) /\ db' = db
               ELSE IF outcome = "SchedulingError"
               THEN retval' = Some(422) /\ db' = db
               ELSE /\ db.issued < MaxSchedules
                    /\ db' = [schedules |->
                                 (db.schedules \ (IF existing = None THEN {} ELSE {existing[1]}))
                                   \cup {ScheduleRow(db.issued + 1, schedule_data, outcome)},
                              issued |-> db.issued + 1]
                    /\ retval' = Some(201)
    /\ UNCHANGED <<engine, pc>>

publish_schedule ==
    /\ pc = "serving"
    /\ universe = "store"
    /\ \E schedule_id \in ScheduleIds :
         \E schedule \in First({r \in db.schedules : r.id = schedule_id}) :
            /\ args' = Some([route |-> "publish", schedule_id |-> schedule_id])
            /\ IF schedule = None
               THEN retval' = Some(404) /\ db' = db
               ELSE IF ~ schedule[1].hard_constraints_met
               THEN retval' = Some(400) /\ db' = db
               ELSE /\ db' = [db EXCEPT !.schedules =
                                 (@ \ {schedule[1]})
                                   \cup {[schedule[1] EXCEPT !.is_published = TRUE]}]
                    /\ retval' = Some(200)
    /\ UNCHANGED <<engine, pc>>

delete_schedule ==
    /\ pc = "serving"
    /\ universe = "store"
    /\ \E schedule_id \in ScheduleIds :
         \E schedule \in First({r \in db.schedules : r.id = schedule_id}) :
            /\ args' = Some([route |-> "delete", schedule_id |-> schedule_id])
            /\ IF schedule = None
               THEN retval' = Some(404) /\ db' = db
               ELSE IF schedule[1].is_published
               THEN retval' = Some(400) /\ db' = db
               ELSE /\ db' = [db EXCEPT !.schedules = @ \ {schedule[1]}]
                    /\ retval' = Some(200)
    /\ UNCHANGED <<engine, pc>>

NextStore == generate_schedule \/ publish_schedule \/ delete_schedule

SpecStore == InitStore /\ [][NextStore]_vars

----------------------------------------------------------------------------
(* What a returned schedule says.                                          *)

Returned == pc = "returned" /\ result # None

\* the assignments of the returned schedule that cover the tick for the student
AssignmentsAt(student_id, timeslot) ==
    {a \in Range(result[1].assignments) :
        /\ a.student_id = student_id
        /\ weekday_names[a.weekday + 1] = timeslot[1]
        /\ StrLe(a.start_time, timeslot[2])
        /\ StrLt(timeslot[2], a.end_time)}

CarersAt(student_id, timeslot) ==
    {a.staff_id : a \in AssignmentsAt(student_id, timeslot)}

RequiredTicks(student) == Range(_get_care_times_for_student(student))

----------------------------------------------------------------------------
\* C1: in every returned schedule, a student that does not require double
\* staffing has, at each of the student's required ticks, exactly one carer when
\* the tick is outside class time and at least one when it is inside.
C1_Coverage ==
    Returned =>
        \A student \in Range(students) :
            ~ student.requires_double_staffing =>
                \A timeslot \in RequiredTicks(student) :
                    LET carers == Cardinality(CarersAt(student.id, timeslot))
                    IN IF _is_class_time(timeslot) THEN carers >= 1 ELSE carers = 1

\* a returned schedule that gives such a student two carers at a class-time tick
\* and one at a leisure tick
C1_Witness ==
    /\ Returned
    /\ \E student \in Range(students) :
         /\ ~ student.requires_double_staffing
         /\ \E t \in RequiredTicks(student) :
              _is_class_time(t) /\ Cardinality(CarersAt(student.id, t)) = 2
         /\ \E t \in RequiredTicks(student) :
              ~ _is_class_time(t) /\ Cardinality(CarersAt(student.id, t)) = 1

----------------------------------------------------------------------------
\* C2: in every returned schedule, a student that requires double staffing has
\* exactly two distinct carers at each of the student's required ticks, whatever
\* the size of the (non-empty) staff pool.
C2_DoubleStaffing ==
    Returned =>
        \A student \in Range(students) :
            student.requires_double_staffing =>
                \A timeslot \in RequiredTicks(student) :
                    Cardinality(CarersAt(student.id, timeslot)) = 2

----------------------------------------------------------------------------
\* the staff member of the pool an assignment names
StaffOf(a) == {f \in Range(staff) : f.id = a.staff_id}

\* the 15-minute ticks an assignment of the returned schedule covers
TicksOf(a) == Range(_generate_timeslots(a.weekday, a.start_time, a.end_time))

\* C3: in every returned schedule, at every tick an assignment covers, the
\* assigned staff member is on duty (a work-hour rule of that weekday holds the
\* tick) and no absence of that staff member on that date covers the tick.
C3_Availability ==
    Returned =>
        \A a \in Range(result[1].assignments) :
            \A f \in StaffOf(a) :
                \A timeslot \in TicksOf(a) :
                    _is_staff_available(f, timeslot, _get_work_hours_for_staff(f),
                                        StaffAbsences(f))

----------------------------------------------------------------------------
\* C4: in every returned schedule, no staff member is assigned to two different
\* students during overlapping time on the same weekday.
C4_NoOverlap ==
    Returned =>
        \A a, b \in Range(result[1].assignments) :
            (/\ a.staff_id = b.staff_id
             /\ a.student_id # b.student_id
             /\ a.weekday = b.weekday)
                => ~ (StrLt(a.start_time, b.end_time) /\ StrLt(b.start_time, a.end_time))

----------------------------------------------------------------------------
\* C5: in every returned schedule, every staff member assigned to a student that
\* does not require double staffing and has a non-empty care_requirements set
\* holds all the required certifications, whatever has_care_needs says and
\* however many qualified staff the pool holds.
C5_CertifiedSingleCarer ==
    Returned =>
        \A student \in Range(students) :
            (~ student.requires_double_staffing /\ student.care_requirements # {}) =>
                \A a \in Range(result[1].assignments) :
                    a.student_id = student.id =>
                        \A f \in StaffOf(a) :
                            _has_required_certifications(f, student.care_requirements)

----------------------------------------------------------------------------
\* a student with care needs whose requirements no staff member of the pool meets
Uncarable(student) ==
    /\ student.has_care_needs
    /\ student.care_requirements # {}
    /\ \A f \in Range(staff) : ~ _has_required_certifications(f, student.care_requirements)

\* C6: when a student with care needs requires a certification that nobody in
\* the pool holds, no schedule is returned in which that student is assigned to
\* anyone.
C6_NoCertifiedStaffInfeasible ==
    Returned =>
        \A student \in Range(students) :
            Uncarable(student) =>
                \A a \in Range(result[1].assignments) : a.student_id # student.id

----------------------------------------------------------------------------
\* the staff of the pool that hold every certification the student requires
QualifiedFor(student) ==
    {f \in Range(staff) : _has_required_certifications(f, student.care_requirements)}

----------------------------------------------------------------------------
\* the minutes the returned schedule gives a staff member over the week
AssignedMinutes(staff_id) ==
    LET all == result[1].assignments
    IN SeqSum([n \in DOMAIN all |->
                 IF all[n].staff_id = staff_id
                 THEN SlotMinutes * Cardinality(TicksOf(all[n]))
                 ELSE 0])

\* C8: in every returned schedule, every staff member's assignments add up to
\* at most 2400 minutes over the week.
C8_HourCap ==
    Returned =>
        \A f \in Range(staff) : AssignedMinutes(f.id) <= WeeklyLimitMinutes

----------------------------------------------------------------------------
\* C9: on an instance used for several calls, each call's decision variables
\* are those of that call's inputs alone: none made by an earlier call remains.
C9_Stateless ==
    pc \in {"hard", "soft", "solve", "solved", "returned"} =>
        DOMAIN decision_vars.var = Range(VariableKeys)

----------------------------------------------------------------------------
----------------------------------------------------------------------------
\* C11: when the solver stops at its time limit without a solution (status
\* UNKNOWN), create_schedule reports the outcome as a timeout: the solver
\* status it reports is "timeout", apart from "infeasible" and "error".
C11_TimeoutReported ==
    (pc \in {"returned", "raised"} /\ status = "UNKNOWN") =>
        /\ result # None
        /\ result[1].solver_status = "timeout"

----------------------------------------------------------------------------
----------------------------------------------------------------------------
\* C13: every schedule create_schedule returns, with the status optimal or
\* feasible, has hard_constraints_met true.
C13_ReturnedMeetsHardConstraints ==
    Returned => result[1].hard_constraints_met

----------------------------------------------------------------------------
\* C14: a create_schedule call given an empty student list or an empty staff
\* list ends raising SchedulingError before anything is constructed: the
\* instance's model and its decision variables are what they were before the
\* call, and no schedule is returned.
C14_EmptyInputRejected ==
    [][(calls' = calls + 1 /\ (students' = <<>> \/ staff' = <<>>)) =>
          /\ pc' = "raised"
          /\ error' = "SchedulingError"
          /\ result' = None
          /\ model' = model
          /\ decision_vars' = decision_vars]_vars

\* a second call with no students, on an instance still holding the first
\* call's model and decision variables
C14_Witness ==
    /\ pc = "raised"
    /\ calls = 2
    /\ students = <<>>
    /\ error = "SchedulingError"
    /\ message = "No students provided"
    /\ model.id = 1
    /\ model.constraints # {}
    /\ decision_vars.order # <<>>

----------------------------------------------------------------------------
\* the start minutes of the 15-minute ticks from an assignment's start_time up
\* to its end_time
ExpandBlock(a) ==
    {m \in ParseMinutes(a.start_time) .. (ParseMinutes(a.end_time) - 1) :
        (m - ParseMinutes(a.start_time)) % SlotMinutes = 0}

InGroup(list, key) == SelectSeq(list, LAMBDA a : GroupKey(a) = key)

\* C15: for every list of per-tick assignments on grid ticks and every
\* (staff, student, weekday) group of it, the blocks
\* _merge_consecutive_assignments returns for the group expand to exactly the
\* group's ticks, each once, and no two blocks of a group touch or overlap.
C15_MergeRoundTrip ==
    (universe = "merge" /\ pc = "done") =>
        \A key \in {GroupKey(a) : a \in Range(args) \cup Range(retval[1])} :
            LET ticks == InGroup(args, key)
                blocks == InGroup(retval[1], key)
            IN /\ UNION {ExpandBlock(blocks[b]) : b \in DOMAIN blocks}
                    = {ParseMinutes(ticks[n].start_time) : n \in DOMAIN ticks}
               /\ SeqSum([b \in DOMAIN blocks |-> Cardinality(ExpandBlock(blocks[b]))])
                    = Len(ticks)
               /\ \A b, c \in DOMAIN blocks :
                    b # c => \/ StrLt(blocks[b].end_time, blocks[c].start_time)
                             \/ StrLt(blocks[c].end_time, blocks[b].start_time)

\* a group of five ticks listed latest first, merged into a block of four ticks
\* and the single last tick of the day
C15_Witness ==
    /\ universe = "merge"
    /\ pc = "done"
    /\ Len(InGroup(args, <<"a", "s1", 0>>)) = 5
    /\ args[1].start_time = <<8, 45>>
    /\ \E b \in Range(retval[1]) :
          GroupKey(b) = <<"a", "s1", 0>> /\ b.start_time = <<8, 0>> /\ b.end_time = <<9, 0>>
    /\ \E b \in Range(retval[1]) :
          GroupKey(b) = <<"a", "s1", 0>> /\ b.start_time = <<17, 45>>
             /\ b.end_time = <<18, 0>>

----------------------------------------------------------------------------
\* C16: every assignment of a returned schedule, merged blocks included, is of
\* the kind double_staffing when its student requires double staffing; for any
\* other student it is one_to_one only if its whole interval lies inside
\* 08:30-15:00 and leisure only if its whole interval lies outside.
C16_AssignmentKind ==
    Returned =>
        \A a \in Range(result[1].assignments) :
            \A i \in DOMAIN students :
                students[i].id = a.student_id =>
                    IF students[i].requires_double_staffing
                    THEN a.assignment_type = "double_staffing"
                    ELSE /\ a.assignment_type \in {"one_to_one", "leisure"}
                         /\ a.assignment_type = "one_to_one" =>
                              /\ StrLe(<<8, 30>>, a.start_time)
                              /\ StrLe(a.end_time, <<15, 0>>)
                         /\ a.assignment_type = "leisure" =>
                              \/ StrLe(a.end_time, <<8, 30>>)
                              \/ StrLe(<<15, 0>>, a.start_time)

----------------------------------------------------------------------------
\* C17: a care-time rule contributes ticks to the target week only if the date
\* of its weekday in that week lies in [valid_from, valid_to), wherever
\* valid_from and valid_to lie relative to the week; a rule whose valid_to is
\* before the week's start or whose valid_from is after the week's end
\* contributes nothing.
C17_CareTimeValidity ==
    (universe = "care" /\ pc = "done") =>
        LET care_time == args.care_times[1]
            week_start == _get_week_start_date(year, week_number)
            date == week_start + care_time.weekday
        IN /\ retval[1] # <<>> =>
                /\ care_time.valid_from <= date
                /\ care_time.valid_to # None => date < care_time.valid_to[1]
           /\ (\/ care_time.valid_to # None /\ care_time.valid_to[1] < week_start
               \/ care_time.valid_from > week_start + 7) => retval[1] = <<>>

----------------------------------------------------------------------------
\* C18: when a staff member has, for one weekday, an every-week work-hour rule
\* and a rule of the rotation week (week_number mod 2) + 1, the work schedule
\* of that weekday has the rotation rule's start and end, and the staff member
\* is available accordingly, in whatever order work_hours lists the two.
C18_RotationOverEveryWeek ==
    (universe = "rota" /\ pc = "done") =>
        \A e, r \in Range(args.work_hours) :
            (/\ e.week_number \in {None, Some(0)}
             /\ r.week_number = Some((week_number % 2) + 1)
             /\ e.weekday = r.weekday) =>
                /\ r.weekday \in DOMAIN retval[1]
                /\ retval[1][r.weekday].start = r.start_time
                /\ retval[1][r.weekday].end = r.end_time
                /\ \A t \in {<<6, 0>>, <<8, 30>>, <<17, 45>>} :
                     _is_staff_available(args, <<weekday_names[r.weekday + 1], t>>,
                                         retval[1], <<>>)
                       <=> (StrLe(r.start_time, t) /\ StrLt(t, r.end_time))

----------------------------------------------------------------------------
\* C19: for every year and week number, the range [week_start, week_end) for
\* which generate_schedule selects absences is the week the engine schedules,
\* from the Monday of that ISO week to the next Monday, so that every absence
\* dated in the scheduled week, and no other, is passed to the engine.
C19_WeekAgreement ==
    (universe = "week" /\ pc = "done") =>
        LET engine_start == _get_week_start_date(year, week_number)
        IN /\ retval[1].week_start = engine_start
           /\ retval[1].week_end = engine_start + 7
           /\ retval[1].absences =
                SelectSeq(args.table, LAMBDA row : /\ row.absence_date >= engine_start
                                                   /\ row.absence_date < engine_start + 7)

----------------------------------------------------------------------------
\* the merged blocks of the returned schedule that give the student to the staff
\* member
BlocksWith(student_id, staff_id) ==
    Cardinality({n \in DOMAIN result[1].assignments :
                    /\ result[1].assignments[n].student_id = student_id
                    /\ result[1].assignments[n].staff_id = staff_id})

\* C20: when the only student names one preferred staff member, and that staff
\* member and a non-preferred one are both available for all of the student's
\* required ticks, the optimal schedule holds strictly more merged blocks of the
\* student with the preferred staff member than with the non-preferred one.
C20_PreferredMoreBlocks ==
    (Returned /\ status = "OPTIMAL" /\ Len(students) = 1) =>
        LET student == students[1]
            Eligible(f) ==
                \A t \in Range(_get_care_times_for_student(student)) :
                    _is_staff_available(f, t, _get_work_hours_for_staff(f),
                                        StaffAbsences(f))
        IN \A p, o \in Range(staff) :
              (/\ student.preferred_staff = {p.id}
               /\ o.id # p.id
               /\ ~ student.requires_double_staffing
               /\ student.care_requirements = {}
               /\ Eligible(p) /\ Eligible(o)) =>
                  BlocksWith(student.id, p.id) > BlocksWith(student.id, o.id)

----------------------------------------------------------------------------
\* the indices of the decision variables of the running call
DecisionIndices == {decision_vars.var[k].index : k \in DOMAIN decision_vars.var}

\* the valuations of the decision variables that satisfy every hard constraint
HardSolutions ==
    {S \in SUBSET DecisionIndices : \A c \in add_all_hard_constraints : Holds(c, S)}

\* C21: in the model a create_schedule call hands to the solver, every valuation
\* of the decision variables that satisfies the hard constraints extends, by
\* values of the overwork, underwork and continuity indicators, to a valuation
\* satisfying every constraint; the model is feasible exactly when its hard
\* constraints alone are.
C21_SoftNeverBlocks ==
    pc = "solve" =>
        \E sols \in {Solutions} :
            /\ \A S \in HardSolutions : \E T \in sols : T \cap DecisionIndices = S
            /\ (sols = {}) <=> (HardSolutions = {})

\* a model with indicator variables, where a valuation that gives one staff
\* member every tick of two satisfies the hard constraints
C21_Witness ==
    /\ pc = "solve"
    /\ Len(staff) = 2
    /\ model.nvars > Cardinality(DecisionIndices)
    /\ \E S \in HardSolutions :
          /\ Cardinality(S) = 2
          /\ \E f \in Range(staff) :
                S = {decision_vars.var[k].index : k \in StaffGridKeys(f)}
          /\ max_acceptable = 1

----------------------------------------------------------------------------
\* C22: the grid _get_all_timeslots returns has exactly 240 distinct ticks, 48
\* for each of the weekdays 0-4, ascending from 06:00 to 17:45 in steps of 15
\* minutes; _is_class_time of a tick is true exactly when its time is at or
\* after 08:30 and before 15:00.
C22_TimeGrid ==
    (universe = "grid" /\ pc = "done") =>
        LET timeslots == retval[1].timeslots
            minute == args[2][1] * 60 + args[2][2]
        IN /\ Len(timeslots) = 240
           /\ Cardinality(Range(timeslots)) = 240
           /\ \A d \in 0 .. 4 : \A n \in 1 .. 48 :
                timeslots[48 * d + n]
                  = <<weekdays[d + 1], <<6 + (n - 1) \div 4, 15 * ((n - 1) % 4)>>>>
           /\ retval[1].is_class_time <=> (510 <= minute /\ minute < 900)

\* the grid ending with Friday 17:45, and the last tick of class time
C22_Witness ==
    /\ universe = "grid"
    /\ pc = "done"
    /\ args = <<"friday", <<14, 45>>>>
    /\ retval[1].is_class_time
    /\ retval[1].timeslots[1] = <<"monday", <<6, 0>>>>
    /\ retval[1].timeslots[240] = <<"friday", <<17, 45>>>>

----------------------------------------------------------------------------
\* C23: every tick _get_care_times_for_student produces for a student of the
\* call, and so the tick of every decision variable, is one of the 240 ticks of
\* the grid, whatever care-time rules the student carries: the constraints that
\* go over the grid reach every decision variable.
C23_TicksOnGrid ==
    pc \in {"hard", "soft", "solve", "solved", "returned"} =>
        /\ \A i \in DOMAIN students :
              Range(_get_care_times_for_student(students[i])) \subseteq AllTimeslotSet
        /\ \A k \in DOMAIN decision_vars.var : k[3] \in AllTimeslotSet
        /\ \A j \in DOMAIN staff :
              StaffGridKeys(staff[j])
                = {k \in DOMAIN decision_vars.var : k[2] = staff[j].id}

----------------------------------------------------------------------------
\* the minute of the day of an HH:MM time
MinuteOfDay(t) == t[1] * 60 + t[2]

\* the positions of the staff member's rules that are of the tick's weekday and
\* of every week (tag None or 0) or of this week's rotation
ApplicableRules ==
    {n \in DOMAIN args.staff.work_hours :
        /\ weekday_names[args.staff.work_hours[n].weekday + 1] = args.timeslot[1]
        /\ args.staff.work_hours[n].week_number
              \in {None, Some(0), Some((week_number % 2) + 1)}}

\* an absence of the tick's date covers the tick: a partial one from its start up
\* to its end, one without both times all day
AbsenceCovers ==
    \E i \in DOMAIN args.absences :
        LET absence == args.absences[i]
            at == MinuteOfDay(args.timeslot[2])
        IN /\ absence.staff_id = args.staff.id
           /\ absence.absence_date
                = _get_week_start_date(year, week_number)
                    + (CHOOSE d \in 0 .. 4 : weekdays[d + 1] = args.timeslot[1])
           /\ \/ absence.start_time = None
              \/ absence.end_time = None
              \/ /\ MinuteOfDay(absence.start_time[1]) <= at
                 /\ at < MinuteOfDay(absence.end_time[1])

InHours(n) ==
    /\ MinuteOfDay(args.staff.work_hours[n].start_time) <= MinuteOfDay(args.timeslot[2])
    /\ MinuteOfDay(args.timeslot[2]) < MinuteOfDay(args.staff.work_hours[n].end_time)

----------------------------------------------------------------------------
\* the triples (student, staff, tick) with the tick required by the student
RequiredTriples ==
    UNION {{<<students[i].id, staff[j].id, t>> :
               j \in DOMAIN staff, t \in Range(_get_care_times_for_student(students[i]))} :
             i \in DOMAIN students}

\* C25: after _create_decision_variables, on a newly constructed scheduler, the
\* keys of the decision variables are exactly the triples (student, staff, tick)
\* with the tick required by the student, one variable of the model for each,
\* also where the staff member is not available at the tick; and no assignment
\* of a returned schedule covers a tick its student does not require.
C25_VariableSpace ==
    /\ pc \in {"hard", "soft", "solve", "solved", "returned"} =>
         /\ DOMAIN decision_vars.var = RequiredTriples
         /\ \A k \in DOMAIN decision_vars.var :
               /\ decision_vars.var[k].model = model.id
               /\ decision_vars.var[k].index \in ModelVars
               /\ \A l \in DOMAIN decision_vars.var :
                     k # l => decision_vars.var[k].index # decision_vars.var[l].index
    /\ Returned =>
         \A a \in Range(result[1].assignments) :
            \A m \in ExpandBlock(a) :
               <<a.student_id, a.staff_id, <<weekday_names[a.weekday + 1], TimeStr(m)>>>>
                  \in RequiredTriples

\* variables made for a staff member at a grid tick before their work hours begin
C25_Witness ==
    /\ pc = "hard"
    /\ \E k \in DOMAIN decision_vars.var :
          \E j \in DOMAIN staff :
             /\ staff[j].id = k[2]
             /\ k[3] = <<"monday", <<8, 15>>>>
             /\ ~ _is_staff_available(staff[j], k[3], _get_work_hours_for_staff(staff[j]),
                                      StaffAbsences(staff[j]))

----------------------------------------------------------------------------
\* C26: with avg the required ticks of all students divided by the number of
\* staff, the constraints of add_workload_balance leave the overwork indicator
\* of a staff member no value but true whenever the staff member's assigned
\* ticks exceed 1.2 * avg, and the underwork indicator no value but true
\* whenever they are fewer than 0.8 * avg, whether or not 1.2 * avg and
\* 0.8 * avg are integers.
C26_WorkloadIndicators ==
    (universe = "workload" /\ pc = "done") =>
        /\ 10 * args.total_hours * args.staff > 12 * args.total_care_hours
              => retval[1].overwork = {TRUE}
        /\ 10 * args.total_hours * args.staff < 8 * args.total_care_hours
              => retval[1].underwork = {TRUE}

----------------------------------------------------------------------------
\* the key of the decision variable with the index
KeyOf(index) == CHOOSE k \in DOMAIN decision_vars.var : decision_vars.var[k].index = index

\* the continuity terms of the model: the indicator and the two variables it joins
ContinuityTerms ==
    {[var |-> c.enf[1], first |-> c.lits[1][1], second |-> c.lits[2][1]] :
        c \in {d \in model.constraints : d.kind = "bool_and"}}

\* C27: a continuity term, of weight -200, exists for (student, staff, tick1,
\* tick2) only when tick1 and tick2 are required ticks of that student on one
\* day with tick2 starting when tick1 ends, and in every solution its indicator
\* is true exactly when the variables (student, staff, tick1) and (student,
\* staff, tick2) both are.
C27_ContinuityIndicators ==
    pc \in {"solve", "solved", "returned"} =>
        \A term \in ContinuityTerms :
            /\ {term.first, term.second} \subseteq DecisionIndices
            /\ LET k1 == KeyOf(term.first)
                   k2 == KeyOf(term.second)
               IN /\ k1[1] = k2[1]
                  /\ k1[2] = k2[2]
                  /\ k1[3][1] = k2[3][1]
                  /\ MinuteOfDay(k2[3][2]) = MinuteOfDay(k1[3][2]) + SlotMinutes
            /\ \E i \in DOMAIN model.objective :
                  model.objective[i] = <<term.var, ContinuityWeight>>
            /\ status \in {"OPTIMAL", "FEASIBLE"} =>
                  (term.var \in solution
                     <=> (term.first \in solution /\ term.second \in solution))

----------------------------------------------------------------------------
\* the blocks of a list of assignments as (staff, student, weekday, start, end)
BlockSet(list) ==
    {<<list[n].staff_id, list[n].student_id, list[n].weekday,
       list[n].start_time, list[n].end_time>> : n \in DOMAIN list}

\* C28: the set of merged blocks (staff, student, weekday, start, end) that
\* _merge_consecutive_assignments makes of a list of per-tick assignments is the
\* same for every permutation of the list.
C28_MergeOrderIndependent ==
    (universe = "merge" /\ pc = "done" /\ Len(args) <= 4) =>
        \A f \in IndexPermutations(Len(args)) :
            BlockSet(_merge_consecutive_assignments([i \in DOMAIN args |-> args[f[i]]]))
              = BlockSet(retval[1])

\* four ticks listed out of order, three of them merged into one block
C28_Witness ==
    /\ universe = "merge"
    /\ pc = "done"
    /\ Len(args) = 4
    /\ args[1].start_time = <<8, 30>>
    /\ args[2].start_time = <<17, 45>>
    /\ args[3].start_time = <<8, 0>>
    /\ args[4].start_time = <<8, 15>>
    /\ \A n \in DOMAIN args : GroupKey(args[n]) = <<"a", "s1", 0>>
    /\ BlockSet(retval[1]) = {<<"a", "s1", 0, <<8, 0>>, <<8, 45>>>>,
                              <<"a", "s1", 0, <<17, 45>>, <<18, 0>>>>}

----------------------------------------------------------------------------
\* the overwork and underwork indicators of the model
WorkloadVars ==
    {c.enf[1] : c \in {d \in model.constraints : d.kind = "lin" /\ d.enf # None}}

\* the valuation gives the student exactly one carer at every required tick
SingleCarer(student, S) ==
    \A t \in RequiredTicks(student) :
        Cardinality({k \in StudentKeys(student, t) : assignments[k].index \in S}) = 1

\* T is S with one more staff member caring for the student at two or more
\* adjacent class-time ticks of one day, and with the same workload indicators
AddsSecondCarer(student, S, T) ==
    LET added == {KeyOf(i) : i \in (T \cap DecisionIndices) \ S}
        minutes == {MinuteOfDay(k[3][2]) : k \in added}
    IN /\ (S \cap DecisionIndices) \subseteq T
       /\ Cardinality(added) >= 2
       /\ \A k \in added : k[1] = student.id /\ _is_class_time(k[3])
       /\ \A k1, k2 \in added : k1[2] = k2[2] /\ k1[3][1] = k2[3][1]
       /\ \A m1, m2 \in minutes :
             m1 < m2 => \E m \in minutes : m = m1 + SlotMinutes
       /\ S \cap WorkloadVars = T \cap WorkloadVars

\* C29: for a student who does not require double staffing and names no
\* preferred staff, a solution of the model that adds a second carer at two or
\* more adjacent class-time ticks to a solution with one carer per tick, the
\* workload indicators being equal, has no lower objective value.
C29_NoRewardForSecondCarer ==
    pc = "solve" =>
        \E sols \in {Solutions} :
            \A student \in {s \in Range(students) :
                              ~ s.requires_double_staffing /\ s.preferred_staff = {}} :
                \A S \in {X \in sols : SingleCarer(student, X)} :
                    \A T \in sols :
                        AddsSecondCarer(student, S, T)
                            => ObjectiveValue(T) >= ObjectiveValue(S)

----------------------------------------------------------------------------
\* C30: whatever generate, publish and delete request is served, a schedule
\* that is published stays in the store: no request removes a row whose
\* is_published is true.
C30_PublishedNeverRemoved ==
    [][\A s \in db.schedules :
          s.is_published => \E t \in db'.schedules : t.id = s.id]_vars

====
